---- MODULE Spec2Model ----
(***************************************************************************)
(* Model of the Dissertation Gantt Tracker dashboard (src/app.py).         *)
(*                                                                         *)
(* The module follows the program from process start (create_sample_data,  *)
(* the load of gantt_data.csv, the construction of app.layout) into the    *)
(* serving phase, where the Dash callbacks update_chart and save_file and  *)
(* the Flask route serve_file run, each to completion.                     *)
(*                                                                         *)
(* Text that the code inspects character by character (currency values,    *)
(* product names, data URLs) is a sequence of one-character strings; text  *)
(* that the code only copies or looks up is a TLA+ string.                 *)
(***************************************************************************)
EXTENDS Integers, Sequences, FiniteSets, TLC

VARIABLES
    pc,            \* position of the process: start-up steps, "serving", "crashed"
    scheduleFile,  \* gantt_data.csv on disk
    exportFile,    \* eu_exports.csv on disk
    docs,          \* the docs/ directory: name -> [present, bytes]
    df,            \* module-level DataFrame df (lines 78-92)
    grid,          \* the 'data' property of the DataTable 'datatable' (browser state)
    ganttFig,      \* figure last given to the Graph 'gantt'
    updateMsg,     \* children of 'update-msg'
    fileList,      \* children of 'file-list' (the names linked)
    response,      \* last response of serve_file
    spirit_df,     \* create_spirit_glass_chart_from_csv: filtered, sorted rows
    total,         \* create_spirit_glass_chart_from_csv: total
    cumulative,    \* create_spirit_glass_chart_from_csv: cumulative
    idx,           \* create_spirit_glass_chart_from_csv: rows consumed by the loop
    spiritFig,     \* create_spirit_glass_chart_from_csv: the figure being built
    lastSaved,     \* history: table written by the most recent successful save
    lastUpload,    \* history: name -> bytes of the most recent upload under it
    lastCall,      \* history: what the last handler invocation was
    steps,         \* number of handler invocations so far
    edits          \* number of cell edits so far

vars == <<pc, scheduleFile, exportFile, docs, df, grid, ganttFig, updateMsg,
          fileList, response, spirit_df, total, cumulative, idx, spiritFig,
          lastSaved, lastUpload, lastCall, steps, edits>>

(***************************************************************************)
(* Bounds of the model.                                                    *)
(***************************************************************************)
MaxSteps == 2
MaxEdits == 2
MaxExportRows == 3

(***************************************************************************)
(* Generic helpers.                                                        *)
(***************************************************************************)
Range(s) == {s[i] : i \in DOMAIN s}

SeqsUpTo(S, n) == UNION {[1..k -> S] : k \in 0..n}

RECURSIVE SumSeq(_)
SumSeq(s) == IF s = <<>> THEN 0 ELSE s[1] + SumSeq(Tail(s))

Perms(n) == {p \in [1..n -> 1..n] : \A i, j \in 1..n : i # j => p[i] # p[j]}

(***************************************************************************)
(* Files. A file is missing, a CSV text (its lines, each a sequence of     *)
(* fields; line 1 is the header) or raw bytes written by an upload.        *)
(***************************************************************************)
Missing == [kind |-> "missing", lines |-> <<>>, bytes |-> <<>>]
Csv(ls) == [kind |-> "csv", lines |-> ls, bytes |-> <<>>]
Raw(bs) == [kind |-> "raw", lines |-> <<>>, bytes |-> bs]

\* pd.read_csv: raises when the file is missing (FileNotFoundError), empty
\* (EmptyDataError), not text, or when a line holds more fields than the header
\* (ParserError); a shorter line is padded with missing values.
read_csv_raises(file) ==
    \/ file.kind # "csv"
    \/ file.lines = <<>>
    \/ \E i \in DOMAIN file.lines : Len(file.lines[i]) > Len(file.lines[1])

(***************************************************************************)
(* create_spirit_glass_chart_from_csv (lines 94-143).                      *)
(***************************************************************************)
ExportColumn == "EU Export (¬£)"
ExportHeader == <<"Product", ExportColumn, "Year">>

\* line 100: .replace('[¬£,]', '', regex=True) deletes every character of the class.
CurrencyClass == {"¬", "£", ","}
replace_regex(text) == SelectSeq(text, LAMBDA c : c \notin CurrencyClass)

\* line 100: .astype(float). The model's value texts hold digits, the currency
\* characters and letters only, so a text converts exactly when it is a
\* non-empty run of digits.
Digits == <<"0", "1", "2", "3", "4", "5", "6", "7", "8", "9">>
DigitValue(c) == CHOOSE d \in 0..9 : Digits[d + 1] = c
IsFloatText(t) == t # <<>> /\ \A i \in DOMAIN t : t[i] \in Range(Digits)

RECURSIVE ToFloat(_)
ToFloat(t) ==
    IF t = <<>> THEN 0
    ELSE 10 * ToFloat(SubSeq(t, 1, Len(t) - 1)) + DigitValue(t[Len(t)])

\* line 103: str.contains("Whiskies|Gin|Vodka|Liqueurs|Ethyl alcohol", case=False):
\* a case-insensitive search for any of the alternatives anywhere in the name.
SpiritPatterns ==
    { <<"W", "h", "i", "s", "k", "i", "e", "s">>,
      <<"G", "i", "n">>,
      <<"V", "o", "d", "k", "a">>,
      <<"L", "i", "q", "u", "e", "u", "r", "s">>,
      <<"E", "t", "h", "y", "l", " ", "a", "l", "c", "o", "h", "o", "l">> }

UpperCase ==
    <<"A", "B", "C", "D", "E", "F", "G", "H", "I", "J", "K", "L", "M">> \o
    <<"N", "O", "P", "Q", "R", "S", "T", "U", "V", "W", "X", "Y", "Z">>
LowerCase ==
    <<"a", "b", "c", "d", "e", "f", "g", "h", "i", "j", "k", "l", "m">> \o
    <<"n", "o", "p", "q", "r", "s", "t", "u", "v", "w", "x", "y", "z">>
Lower(c) == IF \E k \in DOMAIN UpperCase : UpperCase[k] = c
            THEN LowerCase[CHOOSE k \in DOMAIN UpperCase : UpperCase[k] = c]
            ELSE c
LowerSeq(s) == [i \in DOMAIN s |-> Lower(s[i])]

Search(pattern, s) ==
    \E i \in 1..(Len(s) - Len(pattern) + 1) :
        LowerSeq(SubSeq(s, i, i + Len(pattern) - 1)) = LowerSeq(pattern)

str_contains(product) == \E pattern \in SpiritPatterns : Search(pattern, product)

\* lines 97-100: the rows of the frame after the value column is cleaned and
\* converted; Index is the row's position in the file.
ExportRows(file) ==
    [i \in 1..(Len(file.lines) - 1) |->
        [Index |-> i - 1,
         Product |-> file.lines[i + 1][1],
         Value |-> ToFloat(replace_regex(file.lines[i + 1][2])),
         Year |-> file.lines[i + 1][3]]]

\* lines 97-100 raise: the file does not parse, the value column is absent
\* (KeyError) or a cleaned value is not a number (ValueError).
ExportReadRaises(file) ==
    \/ read_csv_raises(file)
    \/ ExportColumn \notin Range(file.lines[1])
    \/ \E i \in 2..Len(file.lines) : ~IsFloatText(replace_regex(file.lines[i][2]))

\* line 103: boolean indexing keeps the matching rows in file order.
FilterSpirits(rows) == SelectSeq(rows, LAMBDA r : str_contains(r.Product))

Descending(rows) == \A i \in 1..(Len(rows) - 1) : rows[i].Value >= rows[i + 1].Value

\* A bug the model is checked against: the sort with ascending left at its
\* default, True.
sort_values_ascending(rows) ==
    {sorted \in {[i \in 1..Len(rows) |-> rows[p[i]]] : p \in Perms(Len(rows))} :
        \A i \in 1..(Len(rows) - 1) : sorted[i].Value <= sorted[i + 1].Value}

\* line 106: sort_values(by=..., ascending=False) with the default
\* kind='quicksort', which is not a stable sort: the rows come out in
\* non-increasing order of value, rows of equal value in an order the sort does
\* not specify. Every outcome the sort may produce is a member.
sort_values(rows) ==
    {sorted \in {[i \in 1..Len(rows) |-> rows[p[i]]] : p \in Perms(Len(rows))} :
        Descending(sorted)}

\* line 114: itertuples() builds a namedtuple with rename=True: a column whose
\* name is not a Python identifier is renamed to "_<position>". "Product" and
\* "Year" are identifiers; "EU Export (¬£)" (spaces, parentheses) is not and
\* becomes "_2".
IsIdentifier(name) == name \in {"Index", "Product", "Year"}
PositionalName == <<"_1", "_2", "_3">>
FieldName(k) == IF IsIdentifier(ExportHeader[k]) THEN ExportHeader[k] ELSE PositionalName[k]
itertuples(row) ==
    ("Index" :> row.Index) @@ (FieldName(1) :> row.Product)
        @@ (FieldName(2) :> row.Value) @@ (FieldName(3) :> row.Year)

\* getattr(object, name, default)
getattr(object, name, default) ==
    IF name \in DOMAIN object THEN object[name] ELSE default

SpiritTitle == "EU Spirit Exports"
SpiritErrorFigure == [title |-> "Unable to load spirit exports data", traces |-> <<>>]

\* lines 96-112: read, clean, filter, sort, total; lines 138-143 on an exception
SpiritRead ==
    /\ pc = "spirit_read"
    /\ IF ExportReadRaises(exportFile)
       THEN /\ spiritFig' = SpiritErrorFigure
            /\ pc' = "layout_table"
            /\ UNCHANGED <<spirit_df, total, cumulative, idx>>
       ELSE /\ spirit_df' \in sort_values(FilterSpirits(ExportRows(exportFile)))
            /\ total' = SumSeq([i \in DOMAIN spirit_df' |-> spirit_df'[i].Value])
            /\ cumulative' = 0
            /\ idx' = 0
            /\ spiritFig' = [title |-> "", traces |-> <<>>]
            /\ pc' = "spirit_loop"
    /\ UNCHANGED <<scheduleFile, exportFile, docs, df, grid, ganttFig, updateMsg,
                   fileList, response, lastSaved, lastUpload, lastCall, steps, edits>>

\* lines 114-125: one iteration of the loop. The share is export_value / total,
\* kept as the pair (numerator, denominator); a zero denominator is the float
\* division by 0.0, which yields nan or inf and raises nothing.
SpiritLoop ==
    /\ pc = "spirit_loop"
    /\ idx < Len(spirit_df)
    /\ LET row == itertuples(spirit_df[idx + 1])
           export_value == getattr(row, ExportColumn, 0)
       IN /\ spiritFig' = [spiritFig EXCEPT !.traces =
                 Append(@, [name |-> row["Product"],
                            x |-> export_value,
                            base |-> cumulative,
                            share |-> [num |-> export_value, den |-> total]])]
          /\ cumulative' = cumulative + export_value
    /\ idx' = idx + 1
    /\ UNCHANGED <<pc, scheduleFile, exportFile, docs, df, grid, ganttFig, updateMsg,
                   fileList, response, spirit_df, total, lastSaved, lastUpload,
                   lastCall, steps, edits>>

\* lines 127-137: the loop is over; the layout is set and the figure returned
SpiritReturn ==
    /\ pc = "spirit_loop"
    /\ idx = Len(spirit_df)
    /\ spiritFig' = [spiritFig EXCEPT !.title = SpiritTitle]
    /\ pc' = "layout_table"
    /\ UNCHANGED <<scheduleFile, exportFile, docs, df, grid, ganttFig, updateMsg,
                   fileList, response, spirit_df, total, cumulative, idx,
                   lastSaved, lastUpload, lastCall, steps, edits>>

(***************************************************************************)
(* The export files of the model.                                          *)
(***************************************************************************)
Gin == <<"G", "i", "n">>
Vodka == <<"V", "o", "d", "k", "a">>
GingerAle == <<"G", "I", "N", "G", "E", "R", " ", "a", "l", "e">>
Cider == <<"C", "i", "d", "e", "r">>

ExportValues ==
    { <<"¬", "£", "2">>, <<"¬", "£", "1", ",", "0">>, <<"2">>, <<"¬", "£", "x">> }

ExportLines ==
    {<<Gin, v, "2024">> : v \in ExportValues}
        \cup {<<Vodka, <<"¬", "£", "2">>, "2024">>, <<Vodka, <<"2">>, "2024">>,
              <<GingerAle, <<"¬", "£", "1", ",", "0">>, "2024">>,
              <<Cider, <<"¬", "£", "2">>, "2024">>}
ExportFiles ==
    {Csv(<<ExportHeader>> \o body) : body \in SeqsUpTo(ExportLines, MaxExportRows)}

EmptyFigure == [title |-> "", traces |-> <<>>]
EmptyDocs == <<>>

InitExport ==
    /\ pc = "spirit_read"
    /\ exportFile \in ExportFiles
    /\ scheduleFile = Missing
    /\ docs = EmptyDocs
    /\ df = <<>>
    /\ grid = <<>>
    /\ ganttFig = EmptyFigure
    /\ updateMsg = ""
    /\ fileList = <<>>
    /\ response = [status |-> 0, body |-> <<>>]
    /\ spirit_df = <<>>
    /\ total = 0
    /\ cumulative = 0
    /\ idx = 0
    /\ spiritFig = EmptyFigure
    /\ lastSaved = <<>>
    /\ lastUpload = EmptyDocs
    /\ lastCall = [op |-> "none", n_clicks |-> 0, data |-> <<>>, outcome |-> ""]
    /\ steps = 0
    /\ edits = 0

NextExport == SpiritRead \/ SpiritLoop \/ SpiritReturn

SpecExport == InitExport /\ [][NextExport]_vars

(***************************************************************************)
(* Schedule tables. A cell of a DataFrame or of the DataTable's data is a  *)
(* text, a number, a timestamp (the day as the integer YYYYMMDD) or a      *)
(* missing value (NaN, None, JSON null; NaT in a datetime column).         *)
(***************************************************************************)
Str(s) == [str |-> s]
Num(n) == [num |-> n]
Ts(d) == [ts |-> d]
NaN == [nan |-> TRUE]
NaT == [nat |-> TRUE]

IsStr(c) == DOMAIN c = {"str"}
IsNum(c) == DOMAIN c = {"num"}
IsTs(c) == DOMAIN c = {"ts"}

ScheduleHeader == <<"Task", "Phase", "Start", "Finish", "Progress", "Notes">>

Row(task, phase, start, finish, progress, notes) ==
    [Task |-> task, Phase |-> phase, Start |-> start, Finish |-> finish,
     Progress |-> progress, Notes |-> notes]

\* The dates of the model: the day, its text as to_csv writes it and its text
\* as the DataTable receives it (a Timestamp serialised to JSON).
DateTable ==
    << <<20250101, "2025-01-01", "2025-01-01T00:00:00">>,
       <<20250131, "2025-01-31", "2025-01-31T00:00:00">>,
       <<20250617, "2025-06-17", "2025-06-17T00:00:00">>,
       <<20250630, "2025-06-30", "2025-06-30T00:00:00">>,
       <<20250701, "2025-07-01", "2025-07-01T00:00:00">>,
       <<20250728, "2025-07-28", "2025-07-28T00:00:00">>,
       <<20250729, "2025-07-29", "2025-07-29T00:00:00">>,
       <<20250811, "2025-08-11", "2025-08-11T00:00:00">>,
       <<20250812, "2025-08-12", "2025-08-12T00:00:00">>,
       <<20250825, "2025-08-25", "2025-08-25T00:00:00">>,
       <<20250826, "2025-08-26", "2025-08-26T00:00:00">>,
       <<20250902, "2025-09-02", "2025-09-02T00:00:00">>,
       <<20250903, "2025-09-03", "2025-09-03T00:00:00">> >>

DateText(d) == DateTable[CHOOSE k \in DOMAIN DateTable : DateTable[k][1] = d][2]
IsoText(d) == DateTable[CHOOSE k \in DOMAIN DateTable : DateTable[k][1] = d][3]
IsDateText(t) == \E k \in DOMAIN DateTable : t \in {DateTable[k][2], DateTable[k][3]}
ParseDate(t) ==
    DateTable[CHOOSE k \in DOMAIN DateTable : t \in {DateTable[k][2], DateTable[k][3]}][1]

\* Texts read_csv takes for a number, with the number ("007" reads as 7).
Numerals == {<<"7", 7>>, <<"007", 7>>, <<"50", 50>>}
IsNumeral(t) == \E n \in Numerals : n[1] = t
NumberOf(t) == (CHOOSE n \in Numerals : n[1] = t)[2]
\* str() of a number, as to_csv writes it
NumberText(v) == CHOOSE t \in {"7", "50"} : NumberOf(t) = v

\* pandas' default na_values: read_csv takes these fields for missing values.
NA_VALUES ==
    {"", "#N/A", "#N/A N/A", "#NA", "-1.#IND", "-1.#QNAN", "-NaN", "-nan",
     "1.#IND", "1.#QNAN", "<NA>", "N/A", "NA", "NULL", "NaN", "None", "n/a",
     "nan", "null"}

\* pd.to_datetime on one cell: a missing value becomes NaT, a text is parsed.
\* (The model puts no number into a date column, and each of its date columns
\* holds texts of one format, which every pandas version parses alike.)
CellRaises(c) == IsStr(c) /\ c.str \notin NA_VALUES /\ ~IsDateText(c.str)
to_datetime_cell(c) ==
    IF IsTs(c) THEN c
    ELSE IF IsStr(c) /\ IsDateText(c.str) THEN Ts(ParseDate(c.str))
    ELSE NaT

\* pd.to_datetime(frame[col]) raises (lines 80-81, 264-265)
to_datetime_raises(table, col) == \E i \in DOMAIN table : CellRaises(table[i][col])

\* frame[col] = pd.to_datetime(frame[col])
to_datetime(table, col) ==
    [i \in DOMAIN table |-> [table[i] EXCEPT ![col] = to_datetime_cell(@)]]

\* DataFrame.to_csv(path, index=False): the header line and one line per row;
\* a text is written as it is, a timestamp at midnight as YYYY-MM-DD, a
\* missing value as the empty field.
FieldText(c) ==
    IF IsStr(c) THEN c.str
    ELSE IF IsNum(c) THEN NumberText(c.num)
    ELSE IF IsTs(c) THEN DateText(c.ts)
    ELSE ""

to_csv(table) ==
    <<ScheduleHeader>> \o
        [i \in DOMAIN table |->
            [k \in DOMAIN ScheduleHeader |-> FieldText(table[i][ScheduleHeader[k]])]]

\* pd.read_csv(path) on a file that parses: a field among NA_VALUES, or absent
\* from a short line, is a missing value; a column whose other fields are all
\* numerals becomes numeric; any other field stays a text.
ColumnNames(file) == Range(file.lines[1])
FieldAt(file, i, k) ==
    IF k <= Len(file.lines[i]) THEN file.lines[i][k] ELSE ""
IsNumericColumn(file, k) ==
    /\ \E i \in 2..Len(file.lines) : FieldAt(file, i, k) \notin NA_VALUES
    /\ \A i \in 2..Len(file.lines) :
          FieldAt(file, i, k) \in NA_VALUES \/ IsNumeral(FieldAt(file, i, k))
ReadCell(file, i, k) ==
    IF FieldAt(file, i, k) \in NA_VALUES THEN NaN
    ELSE IF IsNumericColumn(file, k) THEN Num(NumberOf(FieldAt(file, i, k)))
    ELSE Str(FieldAt(file, i, k))

read_csv(file) ==
    [i \in 1..(Len(file.lines) - 1) |->
        [name \in ColumnNames(file) |->
            ReadCell(file, i + 1, CHOOSE k \in DOMAIN file.lines[1] : file.lines[1][k] = name)]]

\* lines 150-166: create_figure. px.timeline takes the frame as it is; the
\* figure is described by its title and the table it was built from.
GanttTitle == "Dissertation Gantt Chart"
create_figure(dataframe) == [title |-> GanttTitle, table |-> dataframe]

\* lines 85-92: the fallback frame
FallbackFrame ==
    << Row(Str("Sample Task"), Str("Research"), Ts(20250101), Ts(20250131),
           Str("50%"), Str("Sample note")) >>

\* lines 79-92: the load at import time. df['Start'] raises KeyError when the
\* file has no such column.
LoadRaises(file) ==
    \/ read_csv_raises(file)
    \/ ~({"Start", "Finish"} \subseteq ColumnNames(file))
    \/ to_datetime_raises(read_csv(file), "Start")
    \/ to_datetime_raises(read_csv(file), "Finish")

LoadFrame(file) == to_datetime(to_datetime(read_csv(file), "Start"), "Finish")

\* line 218: data=df.to_dict('records'), serialised to JSON for the browser:
\* a timestamp becomes its ISO text, a missing value null.
JsonCell(c) == IF IsTs(c) THEN Str(IsoText(c.ts)) ELSE IF IsStr(c) \/ IsNum(c) THEN c ELSE NaN
to_dict_records(frame) ==
    [i \in DOMAIN frame |-> [name \in DOMAIN frame[i] |-> JsonCell(frame[i][name])]]

(***************************************************************************)
(* create_sample_data (lines 30-72) and the start of the process.          *)
(***************************************************************************)
SampleGanttLines ==
    <<ScheduleHeader,
       <<"Literature Review & Finalizing Proposal", "Planning", "2025-06-17", "2025-06-30", "100%", "Completed - proposal finalized">>,
       <<"Data Collection & Preparation", "Preparation", "2025-06-17", "2025-07-28", "50%", "Ongoing - data gathering in progress">>,
       <<"Model Development & Testing", "Development", "2025-07-01", "2025-08-11", "20%", "Starting model framework">>,
       <<"Analysis & Scenario Modelling", "Analysis", "2025-07-29", "2025-08-11", "0%", "Planned - forecasting scenarios">>,
       <<"Drafting Report & Visuals", "Reporting", "2025-07-29", "2025-08-11", "0%", "Planned - first draft completion">>,
       <<"Supervisor Review Period", "Review", "2025-08-12", "2025-08-25", "0%", "2 weeks for supervisor feedback - CRITICAL">>,
       <<"Incorporate Feedback & Final Polish", "Revision", "2025-08-26", "2025-09-02", "0%", "Address supervisor comments">>,
       <<"Final Submission", "Submission", "2025-09-03", "2025-09-03", "0%", "DEADLINE - Submit by end of day">> >>

SampleExportLines ==
    <<ExportHeader,
       <<<<"W", "h", "i", "s", "k", "i", "e", "s">>,
         <<"¬", "£", "1", ",", "2", "5", "0", ",", "0", "0", "0">>, "2024">>,
       <<<<"G", "i", "n">>,
         <<"¬", "£", "8", "9", "0", ",", "0", "0", "0">>, "2024">>,
       <<<<"V", "o", "d", "k", "a">>,
         <<"¬", "£", "6", "5", "0", ",", "0", "0", "0">>, "2024">>,
       <<<<"L", "i", "q", "u", "e", "u", "r", "s">>,
         <<"¬", "£", "4", "2", "0", ",", "0", "0", "0">>, "2024">>,
       <<<<"E", "t", "h", "y", "l", " ", "a", "l", "c", "o", "h", "o", "l">>,
         <<"¬", "£", "3", "2", "0", ",", "0", "0", "0">>, "2024">> >>

\* lines 30-72: each file is written only when it does not exist
create_sample_data ==
    /\ pc = "start"
    /\ scheduleFile' = IF scheduleFile.kind = "missing" THEN Csv(SampleGanttLines)
                       ELSE scheduleFile
    /\ exportFile' = IF exportFile.kind = "missing" THEN Csv(SampleExportLines)
                     ELSE exportFile
    /\ pc' = "load"
    /\ UNCHANGED <<docs, df, grid, ganttFig, updateMsg, fileList, response, spirit_df,
                   total, cumulative, idx, spiritFig, lastSaved, lastUpload, lastCall,
                   steps, edits>>

\* lines 78-92: the load of gantt_data.csv, with the fallback frame on any error
LoadData ==
    /\ pc = "load"
    /\ df' = IF LoadRaises(scheduleFile) THEN FallbackFrame ELSE LoadFrame(scheduleFile)
    /\ lastSaved' = df'
    /\ pc' = "layout_gantt"
    /\ UNCHANGED <<scheduleFile, exportFile, docs, grid, ganttFig, updateMsg, fileList,
                   response, spirit_df, total, cumulative, idx, spiritFig, lastUpload,
                   lastCall, steps, edits>>

\* line 189: dcc.Graph(id="gantt", figure=create_figure(df)); line 195 then
\* calls create_spirit_glass_chart_from_csv()
LayoutGantt ==
    /\ pc = "layout_gantt"
    /\ ganttFig' = create_figure(df)
    /\ pc' = "spirit_read"
    /\ UNCHANGED <<scheduleFile, exportFile, docs, df, grid, updateMsg, fileList,
                   response, spirit_df, total, cumulative, idx, spiritFig, lastSaved,
                   lastUpload, lastCall, steps, edits>>

(***************************************************************************)
(* The docs/ directory: get_file_links, save_file, serve_file.             *)
(***************************************************************************)
\* The characters of the model's names in code-point order.
CodeOrder ==
    <<" ", ".", "/", "0", "1", "2", "3", "4", "5", "6", "7", "8", "9", "A", "B", "C">> \o
    <<"D", "E", "F", "G", "H", "I", "J", "K", "L", "M", "N", "O", "P", "Q", "R", "S">> \o
    <<"T", "U", "V", "W", "X", "Y", "Z", "_", "a", "b", "c", "d", "e", "f", "g", "h">> \o
    <<"i", "j", "k", "l", "m", "n", "o", "p", "q", "r", "s", "t", "u", "v", "w", "x">> \o
    <<"y", "z">>
Code(c) == CHOOSE k \in DOMAIN CodeOrder : CodeOrder[k] = c

Min(a, b) == IF a < b THEN a ELSE b

\* Python's order of str: by the first differing character, a prefix first.
LexLess(a, b) ==
    \/ \E k \in 1..Min(Len(a), Len(b)) :
          /\ SubSeq(a, 1, k - 1) = SubSeq(b, 1, k - 1)
          /\ Code(a[k]) < Code(b[k])
    \/ Len(a) < Len(b) /\ a = SubSeq(b, 1, Len(a))

\* sorted(names)
sorted(names) ==
    CHOOSE s \in [1..Cardinality(names) -> names] :
        /\ Range(s) = names
        /\ \A i \in 1..(Len(s) - 1) : LexLess(s[i], s[i + 1])

startswith(name, prefix) ==
    Len(name) >= Len(prefix) /\ SubSeq(name, 1, Len(prefix)) = prefix

\* lines 168-182: the names linked, hidden files skipped. The empty list is
\* shown as the placeholder "No documents uploaded yet."
get_file_links(dir) == SelectSeq(sorted(DOMAIN dir), LAMBDA f : ~startswith(f, <<".">>))

\* lines 199-204, 217-218, 247: the rest of app.layout. pd.read_csv of the
\* export file is called outside any try: when the file exists and does not
\* parse, the exception ends the import of the module and with it the process.
LayoutTables ==
    /\ pc = "layout_table"
    /\ IF exportFile.kind # "missing" /\ read_csv_raises(exportFile)
       THEN /\ pc' = "crashed"
            /\ UNCHANGED <<grid, fileList>>
       ELSE /\ grid' = to_dict_records(df)
            /\ fileList' = get_file_links(docs)
            /\ pc' = "serving"
    /\ UNCHANGED <<scheduleFile, exportFile, docs, df, ganttFig, updateMsg, response,
                   spirit_df, total, cumulative, idx, spiritFig, lastSaved, lastUpload,
                   lastCall, steps, edits>>

\* content.split(',', 1): the text before the first comma and the text after it
HasComma(content) == \E k \in DOMAIN content : content[k] = ","
FirstComma(content) ==
    CHOOSE k \in DOMAIN content :
        content[k] = "," /\ \A j \in 1..(k - 1) : content[j] # ","
split(content) ==
    [header |-> SubSeq(content, 1, FirstComma(content) - 1),
     encoded |-> SubSeq(content, FirstComma(content) + 1, Len(content))]

\* base64.b64decode(encoded): characters outside the alphabet are discarded;
\* what is left is decoded four characters at a time, "=" padding the last
\* group; a length that is no multiple of four raises binascii.Error.
B64Alphabet ==
    <<"A", "B", "C", "D", "E", "F", "G", "H", "I", "J", "K", "L", "M", "N", "O", "P">> \o
    <<"Q", "R", "S", "T", "U", "V", "W", "X", "Y", "Z", "a", "b", "c", "d", "e", "f">> \o
    <<"g", "h", "i", "j", "k", "l", "m", "n", "o", "p", "q", "r", "s", "t", "u", "v">> \o
    <<"w", "x", "y", "z", "0", "1", "2", "3", "4", "5", "6", "7", "8", "9", "+", "/">>
B64Value(c) ==
    IF c = "=" THEN 0 ELSE (CHOOSE k \in DOMAIN B64Alphabet : B64Alphabet[k] = c) - 1
B64Chars(encoded) ==
    SelectSeq(encoded, LAMBDA c : c = "=" \/ c \in Range(B64Alphabet))
b64decode_raises(encoded) == Len(B64Chars(encoded)) % 4 # 0

B64Group(g) ==
    LET n == B64Value(g[1]) * 262144 + B64Value(g[2]) * 4096
               + B64Value(g[3]) * 64 + B64Value(g[4])
        three == <<n \div 65536, (n \div 256) % 256, n % 256>>
    IN IF g[3] = "=" THEN SubSeq(three, 1, 1)
       ELSE IF g[4] = "=" THEN SubSeq(three, 1, 2)
       ELSE three

RECURSIVE B64Groups(_)
B64Groups(chars) ==
    IF chars = <<>> THEN <<>>
    ELSE B64Group(SubSeq(chars, 1, 4)) \o B64Groups(SubSeq(chars, 5, Len(chars)))

b64decode(encoded) == B64Groups(B64Chars(encoded))

\* os.path.join(DOCS_FOLDER, name): a name is used as it comes. A plain name
\* is a file of docs/; "../<base>" is the file <base> of the working
\* directory, where gantt_data.csv lives. (The model's names hold no other
\* "/".)
GanttDataCsv == <<"g", "a", "n", "t", "t", "_", "d", "a", "t", "a", ".", "c", "s", "v">>
ParentPrefix == <<".", ".", "/">>
IsParentPath(name) == startswith(name, ParentPrefix)
BaseName(name) == SubSeq(name, Len(ParentPrefix) + 1, Len(name))

\* lines 282-288: one (content, name) pair; fs is [docs, schedule]
StoreRaises(content) == ~HasComma(content) \/ b64decode_raises(split(content).encoded)

StoreOne(fs, content, name) ==
    IF StoreRaises(content) THEN fs
    ELSE LET data == b64decode(split(content).encoded)
         IN IF IsParentPath(name)
            THEN IF BaseName(name) = GanttDataCsv
                 THEN [fs EXCEPT !.schedule = Raw(data)]
                 ELSE fs
            ELSE [fs EXCEPT !.docs = (name :> data) @@ fs.docs]

\* lines 280-288: for content, name in zip(contents, filenames)
RECURSIVE StoreAll(_, _, _)
StoreAll(fs, contents, filenames) ==
    IF contents = <<>> \/ filenames = <<>> THEN fs
    ELSE StoreAll(StoreOne(fs, Head(contents), Head(filenames)),
                  Tail(contents), Tail(filenames))

\* What the browser sent: the bytes of a file and the data URL the Upload
\* component makes of them.
UploadedFiles ==
    { [bytes |-> <<104, 105>>,
       content |-> <<"d", "a", "t", "a", ":", "t", "e", "x", "t", "/", "p", "l", "a", "i", "n", ";", "b", "a", "s", "e", "6", "4", ",", "a", "G", "k", "=">>],
      [bytes |-> <<118, 50, 33>>,
       content |-> <<"d", "a", "t", "a", ":", "t", "e", "x", "t", "/", "p", "l", "a", "i", "n", ";", "b", "a", "s", "e", "6", "4", ",", "d", "j", "I", "h">>] }
\* A content that is no data URL (a hand-made request).
BadContent == <<"h", "i">>

NotesPdf == <<"n", "o", "t", "e", "s", ".", "p", "d", "f">>
HiddenName == <<".", "k", "e", "e", "p">>
ParentGantt == ParentPrefix \o GanttDataCsv
UploadNames == {NotesPdf, HiddenName, ParentGantt}

\* The bytes last uploaded under each name: a data URL counts, BadContent
\* carries no file.
RECURSIVE Uploaded(_, _, _)
Uploaded(last, contents, filenames) ==
    IF contents = <<>> \/ filenames = <<>> THEN last
    ELSE Uploaded(IF \E u \in UploadedFiles : u.content = Head(contents)
                  THEN (Head(filenames) :>
                           (CHOOSE u \in UploadedFiles : u.content = Head(contents)).bytes)
                       @@ last
                  ELSE last,
                  Tail(contents), Tail(filenames))

\* lines 278-289
save_file(contents, filenames) ==
    /\ pc = "serving"
    /\ steps < MaxSteps
    /\ LET fs == StoreAll([docs |-> docs, schedule |-> scheduleFile], contents, filenames)
       IN /\ docs' = fs.docs
          /\ scheduleFile' = fs.schedule
          /\ fileList' = get_file_links(fs.docs)
    /\ lastUpload' = Uploaded(lastUpload, contents, filenames)
    /\ lastCall' = [op |-> "save_file", n_clicks |-> 0, data |-> <<>>, outcome |-> "listed"]
    /\ steps' = steps + 1
    /\ UNCHANGED <<pc, exportFile, df, grid, ganttFig, updateMsg, response, spirit_df,
                   total, cumulative, idx, spiritFig, lastSaved, edits>>

\* lines 293-298: send_from_directory refuses a name that leaves the directory
\* (werkzeug's safe_join) and a name that is no file of it; both raise
\* NotFound, which the handler turns into a 404 response.
send_from_directory_raises(dir, filename) ==
    \/ filename = <<".", ".">>
    \/ IsParentPath(filename)
    \/ filename \notin DOMAIN dir
ServeResponse(dir, filename) ==
    IF send_from_directory_raises(dir, filename)
    THEN [status |-> 404, body |-> <<>>]
    ELSE [status |-> 200, body |-> dir[filename]]

serve_file(filename) ==
    /\ pc = "serving"
    /\ steps < MaxSteps
    /\ response' = ServeResponse(docs, filename)
    /\ lastCall' = [op |-> "serve_file", n_clicks |-> 0, data |-> <<>>,
                    outcome |-> IF response'.status = 200 THEN "served" ELSE "not_found"]
    /\ steps' = steps + 1
    /\ UNCHANGED <<pc, scheduleFile, exportFile, docs, df, grid, ganttFig, updateMsg,
                   fileList, spirit_df, total, cumulative, idx, spiritFig, lastSaved,
                   lastUpload, edits>>

(***************************************************************************)
(* update_chart (lines 257-269) and the edits of the grid.                 *)
(***************************************************************************)
\* to_csv opens the file for writing, which empties it, and writes the lines.
\* The write ends in one of these ways: -1, open() raises and the file is as
\* it was; k < Len(lines), the write raises after k lines (disk full, I/O
\* error) and the file holds those k lines; Len(lines), the write completes.
WriteOutcomes(lines) == -1..Len(lines)
FileAfterWrite(file, lines, k) ==
    IF k = -1 THEN file ELSE Csv(SubSeq(lines, 1, k))

\* A bug the model is checked against: only the Start column is validated.
ConversionRaises_StartOnly(data) == to_datetime_raises(data, "Start")

\* lines 264-265: either conversion raises
ConversionRaises(data) ==
    \/ to_datetime_raises(data, "Start")
    \/ to_datetime_raises(to_datetime(data, "Start"), "Finish")

SavedMsg == "Chart updated and saved."
ErrorMsg == "Error updating chart"

update_chart(n_clicks, data, io) ==
    /\ pc = "serving"
    /\ steps < MaxSteps
    /\ IF data = <<>> \/ n_clicks = 0
       THEN \* lines 259-260
            /\ ganttFig' = create_figure(df)
            /\ updateMsg' = ""
            /\ lastCall' = [op |-> "update_chart", n_clicks |-> n_clicks, data |-> data,
                            outcome |-> "nothing"]
            /\ UNCHANGED <<scheduleFile, lastSaved>>
       ELSE IF ConversionRaises(data)
       THEN \* lines 264-265 raise; lines 268-269
            /\ ganttFig' = create_figure(df)
            /\ updateMsg' = ErrorMsg
            /\ lastCall' = [op |-> "update_chart", n_clicks |-> n_clicks, data |-> data,
                            outcome |-> "date_error"]
            /\ UNCHANGED <<scheduleFile, lastSaved>>
       ELSE LET updated_df == to_datetime(to_datetime(data, "Start"), "Finish")
                lines == to_csv(updated_df)
            IN /\ io \in WriteOutcomes(lines)
               /\ scheduleFile' = FileAfterWrite(scheduleFile, lines, io)
               /\ IF io = Len(lines)
                  THEN \* lines 266-267
                       /\ ganttFig' = create_figure(updated_df)
                       /\ updateMsg' = SavedMsg
                       /\ lastSaved' = updated_df
                       /\ lastCall' = [op |-> "update_chart", n_clicks |-> n_clicks,
                                       data |-> data, outcome |-> "saved"]
                  ELSE \* line 266 raises; lines 268-269
                       /\ ganttFig' = create_figure(df)
                       /\ updateMsg' = ErrorMsg
                       /\ UNCHANGED lastSaved
                       /\ lastCall' = [op |-> "update_chart", n_clicks |-> n_clicks,
                                       data |-> data, outcome |-> "write_error"]
    /\ steps' = steps + 1
    /\ UNCHANGED <<pc, exportFile, docs, df, grid, fileList, response, spirit_df, total,
                   cumulative, idx, spiritFig, lastUpload, edits>>

\* The user types a text into one cell of the editable DataTable (lines
\* 215-222); nothing is sent to the server.
EditCell(i, col, text) ==
    /\ pc = "serving"
    /\ edits < MaxEdits
    /\ i \in DOMAIN grid
    /\ grid' = [grid EXCEPT ![i][col] = Str(text)]
    /\ edits' = edits + 1
    /\ UNCHANGED <<pc, scheduleFile, exportFile, docs, df, ganttFig, updateMsg, fileList,
                   response, spirit_df, total, cumulative, idx, spiritFig, lastSaved,
                   lastUpload, lastCall, steps>>

(***************************************************************************)
(* The runs of the model: what is on disk when the process starts, and     *)
(* what the user does once the page is served.                             *)
(***************************************************************************)
TwoTasks ==
    Csv(<<ScheduleHeader,
          <<"T1", "P", "2025-06-17", "2025-06-30", "100%", "done">>,
          <<"T2", "Q", "2025-07-01", "2025-07-28", "50%", "">> >>)
HeaderOnly == Csv(<<ScheduleHeader>>)
BadDate ==
    Csv(<<ScheduleHeader, <<"T1", "P", "next week", "2025-06-30", "100%", "done">> >>)
TooManyFields ==
    Csv(<<ScheduleHeader, <<"T1", "P", "2025-06-17", "2025-06-30", "100%", "done", "x">> >>)
ScheduleFiles == {Missing, TwoTasks, HeaderOnly, BadDate, TooManyFields}

EmptyFile == Csv(<<>>)
BadCurrency == Csv(<<ExportHeader, <<Gin, <<"¬", "£", "x">>, "2024">> >>)
StartExportFiles == {Missing, EmptyFile, BadCurrency}

\* The edits of the model: row, column, text typed.
EditChoices ==
    { <<1, "Start", "not a date">>, <<2, "Finish", "to be decided">>,
      <<1, "Notes", "revised">> }

FetchNames == UploadNames \cup {<<"d", "r", "a", "f", "t", ".", "t", "x", "t">>}

UploadContents == {u.content : u \in UploadedFiles}
Uploads ==
    {[contents |-> <<c>>, filenames |-> <<n>>] : c \in UploadContents, n \in UploadNames}
        \cup {[contents |-> <<BadContent>>, filenames |-> <<NotesPdf>>]}
        \cup {[contents |-> cs, filenames |-> <<NotesPdf, NotesPdf>>] :
                cs \in {p \in UploadContents \X UploadContents : p[1] # p[2]}}

NoCall == [op |-> "none", n_clicks |-> 0, data |-> <<>>, outcome |-> ""]
NoResponse == [status |-> 0, body |-> <<>>]

Init ==
    /\ pc = "start"
    /\ \/ scheduleFile \in ScheduleFiles /\ exportFile = Missing
       \/ scheduleFile = TwoTasks /\ exportFile \in StartExportFiles
    /\ docs = EmptyDocs
    /\ df = <<>>
    /\ grid = <<>>
    /\ ganttFig = EmptyFigure
    /\ updateMsg = ""
    /\ fileList = <<>>
    /\ response = NoResponse
    /\ spirit_df = <<>>
    /\ total = 0
    /\ cumulative = 0
    /\ idx = 0
    /\ spiritFig = EmptyFigure
    /\ lastSaved = <<>>
    /\ lastUpload = EmptyDocs
    /\ lastCall = NoCall
    /\ steps = 0
    /\ edits = 0

UpdateChart ==
    \E n_clicks \in {0, 1}, io \in -1..(Len(grid) + 1) :
        update_chart(n_clicks, grid, io)

Edit == \E e \in EditChoices : EditCell(e[1], e[2], e[3])

SaveFile == \E u \in Uploads : save_file(u.contents, u.filenames)

ServeFile == \E filename \in FetchNames : serve_file(filename)

Next ==
    \/ create_sample_data
    \/ LoadData
    \/ LayoutGantt
    \/ SpiritRead
    \/ SpiritLoop
    \/ SpiritReturn
    \/ LayoutTables
    \/ Edit
    \/ UpdateChart
    \/ SaveFile
    \/ ServeFile

Spec == Init /\ [][Next]_vars

(***************************************************************************)
(* Save, restart, load: the process is stopped and started again, and the  *)
(* new process loads what update_chart saved.                              *)
(***************************************************************************)
\* The files stay; the memory of the process and the page in the browser go.
Restart ==
    /\ pc = "serving"
    /\ pc' = "start"
    /\ df' = <<>>
    /\ grid' = <<>>
    /\ ganttFig' = EmptyFigure
    /\ updateMsg' = ""
    /\ fileList' = <<>>
    /\ response' = NoResponse
    /\ spirit_df' = <<>>
    /\ total' = 0
    /\ cumulative' = 0
    /\ idx' = 0
    /\ spiritFig' = EmptyFigure
    /\ UNCHANGED <<scheduleFile, exportFile, docs, lastSaved, lastUpload, lastCall,
                   steps, edits>>

\* Texts a user may leave in a cell of a valid table.
RoundTripChoices ==
    { <<1, "Notes", "">>, <<2, "Notes", "NA">>, <<2, "Notes", "revised">>,
      <<1, "Progress", "7">>, <<2, "Progress", "50">>, <<1, "Task", "">>,
      <<2, "Start", "2025-06-30T00:00:00">> }

EditValid == \E e \in RoundTripChoices : EditCell(e[1], e[2], e[3])

InitRoundTrip ==
    /\ pc = "start"
    /\ scheduleFile = TwoTasks
    /\ exportFile = Missing
    /\ docs = EmptyDocs
    /\ df = <<>>
    /\ grid = <<>>
    /\ ganttFig = EmptyFigure
    /\ updateMsg = ""
    /\ fileList = <<>>
    /\ response = NoResponse
    /\ spirit_df = <<>>
    /\ total = 0
    /\ cumulative = 0
    /\ idx = 0
    /\ spiritFig = EmptyFigure
    /\ lastSaved = <<>>
    /\ lastUpload = EmptyDocs
    /\ lastCall = NoCall
    /\ steps = 0
    /\ edits = 0

NextRoundTrip ==
    \/ create_sample_data
    \/ LoadData
    \/ LayoutGantt
    \/ SpiritRead
    \/ SpiritLoop
    \/ SpiritReturn
    \/ LayoutTables
    \/ EditValid
    \/ UpdateChart
    \/ Restart

SpecRoundTrip == InitRoundTrip /\ [][NextRoundTrip]_vars

(***************************************************************************)
(* The properties checked.                                                 *)
(***************************************************************************)
\* The call is a confirm: update_chart with n_clicks > 0 and a non-empty snapshot.
ConfirmOf(call) == call.op = "update_chart" /\ call.n_clicks > 0 /\ call.data # <<>>

\* Some row's Start or Finish cannot be coerced to a date.
HasMalformedDate(data) ==
    \E i \in DOMAIN data : CellRaises(data[i].Start) \/ CellRaises(data[i].Finish)

\* The snapshot with both date columns converted: the table update_chart saves.
Updated(data) == to_datetime(to_datetime(data, "Start"), "Finish")

\* The figure of the spirit chart has been returned by the normal path.
SpiritReturned == spiritFig.title = SpiritTitle

\* C1: a confirm whose snapshot holds a Start or Finish value that cannot be
\* coerced to a date leaves gantt_data.csv exactly as it was.
C1_MalformedDateLeavesFileUnchanged ==
    [][(steps' = steps + 1 /\ ConfirmOf(lastCall') /\ HasMalformedDate(lastCall'.data))
         => scheduleFile' = scheduleFile]_vars

\* C1, its case: a confirm has run on a snapshot in which one row's Finish is
\* malformed while its Start and another row's dates parse; the error is
\* reported and the file is the one the process started with.
C1_Witness ==
    /\ ConfirmOf(lastCall)
    /\ \E i, j \in DOMAIN lastCall.data :
          /\ i # j
          /\ CellRaises(lastCall.data[i].Finish)
          /\ ~CellRaises(lastCall.data[i].Start)
          /\ ~CellRaises(lastCall.data[j].Start)
          /\ ~CellRaises(lastCall.data[j].Finish)
    /\ updateMsg = ErrorMsg
    /\ scheduleFile = TwoTasks

C3_CumulativeIsSumOfValues ==
    SpiritReturned =>
        LET rows == FilterSpirits(ExportRows(exportFile))
            sum == SumSeq([i \in DOMAIN rows |-> rows[i].Value])
        IN /\ cumulative = sum
           /\ \A k \in DOMAIN spiritFig.traces :
                 LET share == spiritFig.traces[k].share
                 IN IF sum = 0 THEN share.num = 0
                    ELSE share.num = spirit_df[k].Value /\ share.den = sum

\* C4: the segment of the row at position k starts at the sum of the values of
\* the rows before it and is as wide as the row's value.
C4_SegmentsAreStacked ==
    SpiritReturned =>
        \A k \in DOMAIN spiritFig.traces :
            /\ spiritFig.traces[k].base =
                  SumSeq([i \in 1..(k - 1) |-> spirit_df[i].Value])
            /\ spiritFig.traces[k].x = spirit_df[k].Value

\* The traces are the rows of spirit_df, in its order.
RenderedInOrder ==
    /\ Len(spiritFig.traces) = Len(spirit_df)
    /\ \A k \in DOMAIN spirit_df : spiritFig.traces[k].name = spirit_df[k].Product

\* C5, as claimed: the filtered rows are rendered in descending order of value,
\* rows of equal value in the order they have in the file.
C5_DescendingAndStable ==
    SpiritReturned =>
        /\ RenderedInOrder
        /\ Descending(spirit_df)
        /\ \A i, j \in DOMAIN spirit_df :
              (i < j /\ spirit_df[i].Value = spirit_df[j].Value)
                  => spirit_df[i].Index < spirit_df[j].Index

\* C5, as amended: the rows rendered are exactly the rows that pass the
\* filter, in descending (non-increasing) order of value; nothing is said of
\* the order of rows of equal value.
C5_Descending ==
    SpiritReturned =>
        /\ RenderedInOrder
        /\ Descending(spirit_df)
        /\ Len(spirit_df) = Len(FilterSpirits(ExportRows(exportFile)))
        /\ Range(spirit_df) = Range(FilterSpirits(ExportRows(exportFile)))

\* C5, its case: a chart was returned for a file in which a row was filtered
\* out and two rows of different value were put in the other order.
C5_Witness ==
    /\ SpiritReturned
    /\ Len(spirit_df) < Len(ExportRows(exportFile))
    /\ \E i, j \in DOMAIN spirit_df :
          /\ i < j
          /\ spirit_df[i].Value > spirit_df[j].Value
          /\ spirit_df[i].Index > spirit_df[j].Index

\* C6: a table saved by update_chart and then loaded by a new process is the
\* table that was saved: the same rows, the same value in every column.
C6_SaveThenLoadIsIdentity ==
    (/\ pc = "layout_gantt"
     /\ lastCall.outcome = "saved"
     /\ scheduleFile = Csv(to_csv(Updated(lastCall.data))))
        => df = Updated(lastCall.data)

\* C7: every name that was uploaded is served with the bytes of its most
\* recent upload, and is listed unless hidden; the listing is in
\* lexicographic order.
C7_FetchReturnsLastUpload ==
    pc = "serving" =>
        /\ \A name \in DOMAIN lastUpload :
              /\ ServeResponse(docs, name) = [status |-> 200, body |-> lastUpload[name]]
              /\ ~startswith(name, <<".">>) => name \in Range(get_file_links(docs))
        /\ \A i \in 1..(Len(get_file_links(docs)) - 1) :
              LexLess(get_file_links(docs)[i], get_file_links(docs)[i + 1])

\* C8: no failure ends the process: start-up and every handler complete.
C8_NoErrorIsFatal == pc # "crashed"

\* C9: a confirm leaves gantt_data.csv holding either the complete table it
\* held before or the complete new table, also when the write fails.
C9_SaveIsAtomic ==
    [][(steps' = steps + 1 /\ ConfirmOf(lastCall'))
         => scheduleFile' \in {scheduleFile, Csv(to_csv(Updated(lastCall'.data)))}]_vars

\* C10: once the page is served, gantt_data.csv changes only in a confirm, and
\* update_chart called with n_clicks = 0 or an empty snapshot returns the empty
\* status message.
C10_OnlyConfirmWrites ==
    [][pc = "serving" =>
         /\ scheduleFile' # scheduleFile => (steps' = steps + 1 /\ ConfirmOf(lastCall'))
         /\ (steps' = steps + 1 /\ lastCall'.op = "update_chart" /\ ~ConfirmOf(lastCall'))
               => updateMsg' = ""]_vars

====
